---- MODULE Spec2Model ----
(***************************************************************************)
(* Email assistant of notebooks/agent.ipynb: the triage router, the       *)
(* tool-calling response agent (llm_call / should_continue /              *)
(* tool_handler) and the combined workflow that wires them together.      *)
(***************************************************************************)
EXTENDS Integers, Sequences, FiniteSets, TLC

(* ---------------------------------------------------------------------- *)
(* Bounds                                                                  *)
(* ---------------------------------------------------------------------- *)

\* Number of leading model turns (llm_call invocations) of a run whose
\* answer is drawn from the whole menu of batches; also the largest number
\* of turns in each of two interleaved runs.
MaxTurns == 3

\* config["recursion_limit"]: the number of super-steps one graph execution
\* may take. No cell passes a config to invoke, so LangGraph's default
\* applies: twelve complete rounds of llm_call and tool_handler and a
\* thirteenth model turn.
recursion_limit == 25

\* Largest number of tool calls the model emits in one turn.
MaxBatch == 2

(* ---------------------------------------------------------------------- *)
(* Values                                                                  *)
(* ---------------------------------------------------------------------- *)

\* START / END of the graphs and the position of a run that raised.
END == "__end__"
Aborted == "__raised__"

\* What a Python function returns when it falls off its end.
None == "None"

\* tool_call_id of a message that is not a tool result, call id of an
\* exception that carries none.
NoCallId == 0

\* The emails handed to the workflow (author, to, subject, email_thread).
Emails ==
    { [author |-> "sysadmin", to |-> "dev", subject |-> "maintenance",
       email_thread |-> "downtime tonight"],
      [author |-> "alice", to |-> "john", subject |-> "question",
       email_thread |-> "missing endpoints?"] }

\* Literal["ignore", "respond", "notify"] of State / RouterSchema.
Labels == {"ignore", "respond", "notify"}

\* The label the chat model may put in its answer to the classifier call:
\* one of the closed set, or one outside of it.
ChatLabels == Labels \cup {"spam"}

\* classification_decision before triage_router has written it.
Unset == "unset"

\* tools = [write_email, schedule_meeting, check_calendar_availability, Done]
tools == <<"write_email", "schedule_meeting", "check_calendar_availability", "Done">>

\* tools_by_name = {tool.name: tool for tool in tools}: the keys of the dict.
tools_by_name == {tools[i] : i \in 1..Len(tools)}

\* Tool names the model emits: registered tools, the terminal marker and a
\* name that is not registered.
EmitNames == {"write_email", "Done", "send_sms"}

\* Arguments the model emits: a mapping the tool's schema accepts, or one it
\* rejects (tool.invoke raises on it).
Args == {"valid", "invalid"}

\* One requested call as the model emits it, before the provider has given it
\* an id.
Requests == [name : EmitNames, args : Args]

\* The batches of tool calls one model turn can carry (zero calls included).
Batches == UNION {[1..n -> Requests] : n \in 0..MaxBatch}

\* No exception has been raised.
NoError == [type |-> "none", arg |-> "none", call_id |-> NoCallId]

VARIABLES
    pc,                       \* node about to execute, END, or Aborted
    email_input,              \* State.email_input
    classification_decision,  \* State.classification_decision
    messages,                 \* State.messages
    error,                    \* exception that reached the caller
    steps,                    \* nodes executed so far, in order
    invoked,                  \* call ids handed to tool.invoke so far, in order
    router_result             \* the label of the chat answer to llm_router

\* The state of one run of the email assistant.
agentVars ==
    <<pc, email_input, classification_decision, messages, error, steps, invoked,
      router_result>>

\* State of the other graphs of the notebooks (langgraph_101.ipynb).
VARIABLES
    memory                    \* InMemorySaver of the interrupt graph, by thread id

\* Repeated invocations of triage_router with a stub classifier.
VARIABLES
    stub_router,              \* deterministic llm_router: its answer per email
    notebook_email,           \* the module-level name email_input of the notebook
    trials                    \* the invocations made: state given, outcome

triageVars == <<stub_router, notebook_email, trials>>

\* Several runs of the email assistant going on at once.
VARIABLES
    runs                      \* the state of each run, and the answers it got

\* The pre-built agent compiled with a checkpointer (langgraph_101.ipynb).
VARIABLES
    saver,                    \* InMemorySaver: the saved messages, by thread id
    invokes                   \* the agent.invoke calls made: thread, input, result

saverVars == <<saver, invokes>>

\* The conditional-routing workflow of langgraph_101.ipynb (call_llm,
\* should_continue, run_tool).
VARIABLES
    app                       \* one app.invoke: position, messages, error, trace

\* What a run of the email assistant leaves alone.
notAgent == <<memory, triageVars, runs, saverVars, app>>

\* What the interrupt graph leaves alone.
notInterrupt == <<agentVars, triageVars, runs, saverVars, app>>

\* What invocations of triage_router leave alone.
notTriage == <<agentVars, memory, runs, saverVars, app>>

\* What concurrent runs leave alone.
notRuns == <<agentVars, memory, triageVars, saverVars, app>>

\* What the pre-built agent leaves alone.
notSaver == <<agentVars, memory, triageVars, runs, app>>

\* What the conditional-routing workflow leaves alone.
notApp == <<agentVars, memory, triageVars, runs, saverVars>>

vars == <<agentVars, memory, triageVars, runs, saverVars, app>>

(* ---------------------------------------------------------------------- *)
(* Messages                                                                *)
(* ---------------------------------------------------------------------- *)

UserMessage(content) ==
    [role |-> "user", content |-> content, tool_calls |-> <<>>,
     tool_call_id |-> NoCallId]

AIMessage(calls) ==
    [role |-> "assistant", content |-> <<>>, tool_calls |-> calls,
     tool_call_id |-> NoCallId]

ToolMessage(observation, id) ==
    [role |-> "tool", content |-> observation, tool_calls |-> <<>>,
     tool_call_id |-> id]

\* Number of tool calls requested by all assistant messages of a conversation.
RECURSIVE CallCount(_)
CallCount(ms) ==
    IF ms = <<>> THEN 0
    ELSE Len(ms[Len(ms)].tool_calls) + CallCount(SubSeq(ms, 1, Len(ms) - 1))

\* Number of assistant messages of a conversation.
Turns(ms) == Cardinality({i \in 1..Len(ms) : ms[i].role = "assistant"})

\* The provider numbers the calls of a turn with ids no earlier call has.
WithIds(batch, ms) ==
    [k \in 1..Len(batch) |->
        [name |-> batch[k].name, args |-> batch[k].args,
         id |-> CallCount(ms) + k]]

(* ---------------------------------------------------------------------- *)
(* Triage                                                                  *)
(* ---------------------------------------------------------------------- *)

\* email_assistant.utils.parse_email: the four fields of the email.
parse_email(email) ==
    <<email.author, email.to, email.subject, email.email_thread>>

\* email_assistant.utils.format_email_markdown(subject, author, to, thread).
format_email_markdown(subject, author, to, email_thread) ==
    <<"Subject", subject, "From", author, "To", to, email_thread>>

\* triage_router with the notify branch routed like respond.
triage_result_notify_responds(email, classification) ==
    LET p == parse_email(email)
        seed == UserMessage(<<"Respond to the email: ">>
                    \o format_email_markdown(p[3], p[1], p[2], p[4]))
    IN  IF classification \in {"respond", "notify"} THEN
            [goto |-> "response_agent", messages |-> <<seed>>,
             classification_decision |-> classification, raised |-> NoError]
        ELSE IF classification = "ignore" THEN
            [goto |-> END, messages |-> <<>>,
             classification_decision |-> classification, raised |-> NoError]
        ELSE
            [goto |-> Aborted, messages |-> <<>>,
             classification_decision |-> Unset,
             raised |-> [type |-> "ValueError", arg |-> classification,
                         call_id |-> NoCallId]]

\* triage_router with the respond branch leaving "messages" out of its update.
triage_result_no_seed(email, classification) ==
    IF classification \in Labels THEN
        [goto |-> IF classification = "respond" THEN "response_agent" ELSE END,
         messages |-> <<>>,
         classification_decision |-> classification, raised |-> NoError]
    ELSE
        [goto |-> Aborted, messages |-> <<>>,
         classification_decision |-> Unset,
         raised |-> [type |-> "ValueError", arg |-> classification,
                     call_id |-> NoCallId]]

\* triage_router from the classifier's answer on: goto, update, or the raise.
triage_result(email, classification) ==
    LET p == parse_email(email)
        author == p[1]
        to == p[2]
        subject == p[3]
        email_thread == p[4]
    IN  IF classification = "respond" THEN
            [goto |-> "response_agent",
             messages |-> << UserMessage(<<"Respond to the email: ">>
                     \o format_email_markdown(subject, author, to, email_thread)) >>,
             classification_decision |-> classification,
             raised |-> NoError]
        ELSE IF classification = "ignore" THEN
            [goto |-> END, messages |-> <<>>,
             classification_decision |-> classification, raised |-> NoError]
        ELSE IF classification = "notify" THEN
            [goto |-> END, messages |-> <<>>,
             classification_decision |-> classification, raised |-> NoError]
        ELSE
            [goto |-> Aborted, messages |-> <<>>,
             classification_decision |-> Unset,
             raised |-> [type |-> "ValueError", arg |-> classification,
                         call_id |-> NoCallId]]

\* A structured-output wrapper that maps a label outside the closed set to
\* "ignore" instead of rejecting the answer.
llm_router_coerce(label) ==
    [classification |-> IF label \in Labels THEN label ELSE "ignore",
     raised |-> NoError]

\* llm_router = llm.with_structured_output(RouterSchema), on a chat answer
\* carrying the given label: the answer is built as a RouterSchema, whose
\* classification field is Literal["ignore", "respond", "notify"]; a label
\* outside of it makes the construction raise ValidationError.
llm_router(label) ==
    IF label \in Labels THEN [classification |-> label, raised |-> NoError]
    ELSE [classification |-> None,
          raised |-> [type |-> "ValidationError", arg |-> "RouterSchema",
                      call_id |-> NoCallId]]

\* triage_router on the email, the chat model answering the classifier call
\* with the given label: the raise of llm_router.invoke leaves the function,
\* otherwise the branches run on result.classification.
triage_router(email, label) ==
    LET result == llm_router(label) IN
    IF result.raised # NoError THEN
        [goto |-> Aborted, messages |-> <<>>,
         classification_decision |-> Unset, raised |-> result.raised]
    ELSE triage_result(email, result.classification)

\* A response agent whose START edge leads to tool_handler.
EntryOf_tool_first(goto) == IF goto = "response_agent" THEN "tool_handler" ELSE goto

\* A workflow that enters the response agent whatever triage decided.
EntryOf_always_agent(goto) ==
    IF goto \in {"response_agent", END} THEN "llm_call" ELSE goto

\* Combined workflow: "response_agent" is the compiled agent, whose START
\* edge leads to llm_call.
EntryOf(goto) == IF goto = "response_agent" THEN "llm_call" ELSE goto

\* Node triage_router whose update also stores the email, its thread
\* dropped, under email_input.
TriageRouter_rewrites_email ==
    /\ pc = "triage_router"
    /\ \E classification \in ChatLabels :
        LET r == triage_router(email_input, classification) IN
        /\ pc' = EntryOf(r.goto)
        /\ messages' = messages \o r.messages
        /\ classification_decision' =
              IF r.raised = NoError THEN r.classification_decision
              ELSE classification_decision
        /\ error' = r.raised
        /\ router_result' = classification
    /\ email_input' = [email_input EXCEPT !.email_thread = ""]
    /\ steps' = Append(steps, "triage_router")
    /\ UNCHANGED invoked
    /\ UNCHANGED notAgent

\* Node triage_router: one classifier call, then Command(goto, update).
TriageRouter ==
    /\ pc = "triage_router"
    /\ \E classification \in ChatLabels :
        LET r == triage_router(email_input, classification) IN
        /\ pc' = EntryOf(r.goto)
        /\ messages' = messages \o r.messages
        /\ classification_decision' =
              IF r.raised = NoError THEN r.classification_decision
              ELSE classification_decision
        /\ error' = r.raised
        /\ router_result' = classification
    /\ steps' = Append(steps, "triage_router")
    /\ UNCHANGED <<email_input, invoked>>
    /\ UNCHANGED notAgent

(* ---------------------------------------------------------------------- *)
(* Response agent                                                          *)
(* ---------------------------------------------------------------------- *)

\* Super-steps the response agent has taken: each execution of one of its
\* nodes is one.
AgentSteps(ss) ==
    Cardinality({k \in 1..Len(ss) : ss[k] \in {"llm_call", "tool_handler"}})

\* {"role": "system", "content": agent_system_prompt.format(...)}
SystemMessage ==
    [role |-> "system", content |-> <<"agent_system_prompt">>,
     tool_calls |-> <<>>, tool_call_id |-> NoCallId]

\* The list llm_call sends to the model: the system prompt, then the
\* conversation.
llm_input(ms) == <<SystemMessage>> \o ms

\* llm_call hands back the prompt it sent together with the reply.
llm_call_returns_prompt(ms, answers) ==
    {<<SystemMessage, AIMessage(WithIds(batch, llm_input(ms)))>> :
        batch \in answers}

\* llm_call: the updates it may return, one per answer of the model: the
\* reply alone, as the list to append.
llm_call(ms, answers) ==
    {<<AIMessage(WithIds(batch, llm_input(ms)))>> : batch \in answers}

\* A batch as the model emitted it, without the ids of the provider.
Shape(calls) ==
    [k \in 1..Len(calls) |-> [name |-> calls[k].name, args |-> calls[k].args]]

\* Turns of a long conversation: an email, alone or with a Done after it.
LongRunBatches ==
    {<<[name |-> "write_email", args |-> "valid"]>>,
     <<[name |-> "write_email", args |-> "valid"],
       [name |-> "Done", args |-> "valid"]>>}

\* Answers of the model late in a long conversation: one more email, or the
\* terminal marker.
TailBatches ==
    {<<[name |-> "write_email", args |-> "valid"]>>,
     <<[name |-> "Done", args |-> "valid"]>>}

\* The answers explored for the next turn of a conversation: the whole menu
\* in the first MaxTurns turns; after them a conversation of emails is
\* followed up to the recursion limit with the late answers.
Answers(ms, menu) ==
    IF Turns(ms) < MaxTurns THEN menu
    ELSE IF \A i \in 1..Len(ms) :
                ms[i].role = "assistant"
                    => Shape(ms[i].tool_calls) \in LongRunBatches
         THEN TailBatches
         ELSE {}

\* Node llm_call: the model's answer is appended as one assistant message.
\* The model answers any batch of the menu.
LlmCall ==
    /\ pc = "llm_call"
    /\ AgentSteps(steps) < recursion_limit
    /\ \E update \in llm_call(messages, Answers(messages, Batches)) :
        messages' = messages \o update
    /\ pc' = "should_continue"
    /\ steps' = Append(steps, "llm_call")
    /\ UNCHANGED <<email_input, classification_decision, error, invoked,
                   router_result>>
    /\ UNCHANGED notAgent

\* Answers of a model that keeps to the tools it was bound to: one call of a
\* registered tool, or an email and the terminal marker in one turn.
RegisteredBatches ==
    {<<[name |-> n, args |-> "valid"]>> : n \in tools_by_name}
        \cup {<<[name |-> "write_email", args |-> "valid"],
                 [name |-> "Done", args |-> "valid"]>>}

\* llm_call with a model that keeps to the registered tools.
LlmCallRegistered ==
    /\ pc = "llm_call"
    /\ AgentSteps(steps) < recursion_limit
    /\ \E update \in
            llm_call(messages, Answers(messages, RegisteredBatches)) :
        messages' = messages \o update
    /\ pc' = "should_continue"
    /\ steps' = Append(steps, "llm_call")
    /\ UNCHANGED <<email_input, classification_decision, error, invoked,
                   router_result>>
    /\ UNCHANGED notAgent

\* should_continue with a final "return END" for a turn without tool calls.
should_continue_end_on_empty(ms) ==
    LET last_message == ms[Len(ms)] IN
    IF last_message.tool_calls # <<>> THEN
        IF last_message.tool_calls[1].name = "Done" THEN END
        ELSE "tool_handler"
    ELSE END

\* should_continue that ends the run quietly once another round of tools and
\* model would not fit in the recursion limit.
should_continue_capped(ms) ==
    LET last_message == ms[Len(ms)] IN
    IF 2 * Turns(ms) + 1 >= recursion_limit THEN END
    ELSE IF last_message.tool_calls # <<>> THEN
        IF last_message.tool_calls[1].name = "Done" THEN END
        ELSE "tool_handler"
    ELSE None

\* should_continue that ends the loop when any call of the turn is Done.
should_continue_any_done(ms) ==
    LET last_message == ms[Len(ms)] IN
    IF last_message.tool_calls # <<>> THEN
        IF \E k \in 1..Len(last_message.tool_calls) :
                last_message.tool_calls[k].name = "Done"
        THEN END
        ELSE "tool_handler"
    ELSE None

\* should_continue: the route chosen for the conversation ms.
should_continue(ms) ==
    LET last_message == ms[Len(ms)] IN
    IF last_message.tool_calls # <<>> THEN
        IF last_message.tool_calls[1].name = "Done" THEN END
        ELSE "tool_handler"
    ELSE None

\* A path map that also sends the route None to END.
path_map_none_ends ==
    [r \in {"tool_handler", END, None} |-> IF r = None THEN END ELSE r]

\* A path map whose END entry leads back to the entry node of the workflow.
path_map_end_restarts ==
    [r \in {"tool_handler", END} |-> IF r = END THEN "triage_router" ELSE r]

\* The path map handed to add_conditional_edges.
path_map == [r \in {"tool_handler", END} |-> r]

\* Conditional edge after llm_call: the route is looked up in the path map;
\* a route that is no key of the map raises KeyError.
ShouldContinue ==
    /\ pc = "should_continue"
    /\ LET route == should_continue(messages) IN
        IF route \in DOMAIN path_map THEN
            /\ pc' = path_map[route]
            /\ error' = error
        ELSE
            /\ pc' = Aborted
            /\ error' = [type |-> "KeyError", arg |-> route, call_id |-> NoCallId]
    /\ steps' = Append(steps, "should_continue")
    /\ UNCHANGED <<email_input, classification_decision, messages, invoked,
                   router_result>>
    /\ UNCHANGED notAgent

\* tool.invoke(args) of a registered tool on arguments its schema accepts.
observation(name, args) ==
    IF name = "write_email" THEN <<"Email sent to", args>>
    ELSE IF name = "schedule_meeting" THEN <<"Meeting scheduled on", args>>
    ELSE IF name = "check_calendar_availability" THEN <<"Available times on", args>>
    ELSE <<"done", args>>

\* The loop of tool_handler with result.insert(0, ...) in place of append.
RECURSIVE tool_loop_prepend(_, _)
tool_loop_prepend(calls, result) ==
    IF calls = <<>> THEN
        [result |-> result, raised |-> NoError, invoked |-> <<>>]
    ELSE LET tool_call == Head(calls) IN
        IF tool_call.name \notin tools_by_name THEN
            [result |-> result,
             raised |-> [type |-> "KeyError", arg |-> tool_call.name,
                         call_id |-> NoCallId],
             invoked |-> <<>>]
        ELSE IF tool_call.args = "invalid" THEN
            [result |-> result,
             raised |-> [type |-> "ValidationError", arg |-> tool_call.name,
                         call_id |-> NoCallId],
             invoked |-> <<tool_call.id>>]
        ELSE LET rest == tool_loop_prepend(Tail(calls),
                            <<ToolMessage(observation(tool_call.name, tool_call.args),
                                          tool_call.id)>> \o result)
             IN  [rest EXCEPT !.invoked = <<tool_call.id>> \o @]

\* The loop of tool_handler over the calls still to run, result being the
\* tool messages built so far: the final list, or the exception that left
\* the loop, and the ids of the calls handed to tool.invoke on the way.
RECURSIVE tool_loop(_, _)
tool_loop(calls, result) ==
    IF calls = <<>> THEN
        [result |-> result, raised |-> NoError, invoked |-> <<>>]
    ELSE LET tool_call == Head(calls) IN
        IF tool_call.name \notin tools_by_name THEN
            [result |-> result,
             raised |-> [type |-> "KeyError", arg |-> tool_call.name,
                         call_id |-> NoCallId],
             invoked |-> <<>>]
        ELSE IF tool_call.args = "invalid" THEN
            [result |-> result,
             raised |-> [type |-> "ValidationError", arg |-> tool_call.name,
                         call_id |-> NoCallId],
             invoked |-> <<tool_call.id>>]
        ELSE LET rest == tool_loop(Tail(calls),
                            Append(result,
                                ToolMessage(observation(tool_call.name, tool_call.args),
                                            tool_call.id)))
             IN  [rest EXCEPT !.invoked = <<tool_call.id>> \o @]

\* tool_handler runs the tools and returns an empty update.
tool_handler_drops_results(ms) ==
    LET r == tool_loop(ms[Len(ms)].tool_calls, <<>>) IN
    [messages |-> <<>>, raised |-> r.raised, invoked |-> r.invoked]

\* tool_handler that returns the results built so far when a call fails.
tool_handler_partial(ms) ==
    LET r == tool_loop(ms[Len(ms)].tool_calls, <<>>) IN
    [messages |-> r.result, raised |-> r.raised, invoked |-> r.invoked]

\* tool_handler on the conversation ms: the update it returns, or the raise.
tool_handler(ms) ==
    LET r == tool_loop(ms[Len(ms)].tool_calls, <<>>) IN
    IF r.raised = NoError THEN
        [messages |-> r.result, raised |-> NoError, invoked |-> r.invoked]
    ELSE [messages |-> <<>>, raised |-> r.raised, invoked |-> r.invoked]

\* Node tool_handler on a state whose messages key has no reducer: the
\* update replaces the conversation.
ToolHandler_overwrite ==
    /\ pc = "tool_handler"
    /\ AgentSteps(steps) < recursion_limit
    /\ LET r == tool_handler(messages) IN
        /\ messages' = r.messages
        /\ error' = r.raised
        /\ pc' = IF r.raised = NoError THEN END ELSE Aborted
        /\ invoked' = invoked \o r.invoked
    /\ steps' = Append(steps, "tool_handler")
    /\ UNCHANGED <<email_input, classification_decision, router_result>>
    /\ UNCHANGED notAgent

\* Node tool_handler that also records a decision in the state.
ToolHandler_sets_decision ==
    /\ pc = "tool_handler"
    /\ AgentSteps(steps) < recursion_limit
    /\ LET r == tool_handler(messages) IN
        /\ messages' = messages \o r.messages
        /\ error' = r.raised
        /\ pc' = IF r.raised = NoError THEN "llm_call" ELSE Aborted
        /\ invoked' = invoked \o r.invoked
    /\ classification_decision' = "notify"
    /\ steps' = Append(steps, "tool_handler")
    /\ UNCHANGED <<email_input, router_result>>
    /\ UNCHANGED notAgent

\* Node tool_handler that ends the run itself once it has executed a batch
\* holding a Done call.
ToolHandler_ends_on_done ==
    /\ pc = "tool_handler"
    /\ AgentSteps(steps) < recursion_limit
    /\ LET r == tool_handler(messages) IN
        /\ messages' = messages \o r.messages
        /\ error' = r.raised
        /\ pc' = IF r.raised # NoError THEN Aborted
                 ELSE IF \E k \in 1..Len(messages[Len(messages)].tool_calls) :
                            messages[Len(messages)].tool_calls[k].name = "Done"
                      THEN END
                      ELSE "llm_call"
        /\ invoked' = invoked \o r.invoked
    /\ steps' = Append(steps, "tool_handler")
    /\ UNCHANGED <<email_input, classification_decision, router_result>>
    /\ UNCHANGED notAgent

\* Node tool_handler, followed by the edge tool_handler -> llm_call.
ToolHandler ==
    /\ pc = "tool_handler"
    /\ AgentSteps(steps) < recursion_limit
    /\ LET r == tool_handler(messages) IN
        /\ messages' = messages \o r.messages
        /\ error' = r.raised
        /\ pc' = IF r.raised = NoError THEN "llm_call" ELSE Aborted
        /\ invoked' = invoked \o r.invoked
    /\ steps' = Append(steps, "tool_handler")
    /\ UNCHANGED <<email_input, classification_decision, router_result>>
    /\ UNCHANGED notAgent

\* The response agent is about to run a node although it has used up its
\* super-steps: invoke raises GraphRecursionError instead.
OutOfSteps ==
    /\ pc \in {"llm_call", "tool_handler"}
    /\ AgentSteps(steps) >= recursion_limit
    /\ pc' = Aborted
    /\ error' = [type |-> "GraphRecursionError", arg |-> "recursion_limit",
                 call_id |-> NoCallId]
    /\ steps' = Append(steps, "out_of_steps")
    /\ UNCHANGED <<email_input, classification_decision, messages, invoked,
                   router_result>>
    /\ UNCHANGED notAgent

(* ---------------------------------------------------------------------- *)
(* Specification                                                           *)
(* ---------------------------------------------------------------------- *)

\* No email assistant run exists (the other graphs are being run).
NoAgentRun ==
    /\ pc = "none"
    /\ email_input = "none"
    /\ classification_decision = Unset
    /\ messages = <<>>
    /\ error = NoError
    /\ steps = <<>>
    /\ invoked = <<>>
    /\ router_result = None

\* The interrupt graph has not been compiled: its checkpointer does not exist.
NoInterruptGraph == memory = <<>>

\* triage_router is not being invoked on its own.
NoTrials == stub_router = <<>> /\ notebook_email = None /\ trials = <<>>

\* No concurrent runs are going on.
NoRuns == runs = <<>>

\* The pre-built agent has not been created.
NoSaver == saver = <<>> /\ invokes = <<>>

\* The conditional-routing workflow is not being run.
NoApp == app = <<>>

\* overall_workflow.invoke({"email_input": email_input})
Init ==
    /\ NoApp
    /\ NoInterruptGraph
    /\ NoTrials
    /\ NoRuns
    /\ NoSaver
    /\ pc = "triage_router"
    /\ email_input \in Emails
    /\ classification_decision = Unset
    /\ messages = <<>>
    /\ error = NoError
    /\ steps = <<>>
    /\ invoked = <<>>
    /\ router_result = None

Next ==
    \/ TriageRouter
    \/ LlmCall
    \/ ShouldContinue
    \/ ToolHandler
    \/ OutOfSteps

Spec == Init /\ [][Next]_vars

\* The same workflow run with a model that keeps to the registered tools.
NextRegistered ==
    \/ TriageRouter
    \/ LlmCallRegistered
    \/ ShouldContinue
    \/ ToolHandler
    \/ OutOfSteps

SpecRegistered == Init /\ [][NextRegistered]_vars

(* ---------------------------------------------------------------------- *)
(* Interrupt graph (step_1 -> human_feedback -> step_3) with InMemorySaver *)
(* ---------------------------------------------------------------------- *)

\* Thread ids callers put in {"configurable": {"thread_id": ...}}.
ThreadIds == {"1", "2"}

\* Values of initial_input["input"].
Inputs == {"hello world", "hi"}

\* Values handed to Command(resume=...).
ResumeValues == {"go to step 3!", "stop"}

\* A thread the checkpointer holds nothing for.
NoCheckpoint ==
    [next |-> "none", values |-> [input |-> None, user_feedback |-> None],
     interrupted |-> FALSE, resume |-> None, initial_input |-> None,
     events |-> <<>>]

\* step_1 and step_3: print and pass, no update of the state.
step_1(values) == values
step_3(values) == values

\* human_feedback that stores the feedback under the key "input".
human_feedback_into_input(values, feedback) ==
    [values EXCEPT !.input = feedback]

\* human_feedback once interrupt(...) has returned feedback:
\* the update {"user_feedback": feedback} applied to the state.
human_feedback(values, feedback) ==
    [values EXCEPT !.user_feedback = feedback]

\* graph.stream(initial_input, thread): a run starts at START -> step_1.
StreamInput(t, input) ==
    /\ memory[t].next = "none"
    /\ memory' = [memory EXCEPT ![t] =
          [@ EXCEPT !.next = "step_1", !.values.input = input,
                    !.initial_input = input]]
    /\ UNCHANGED notInterrupt

\* Node step_1, then the edge step_1 -> human_feedback.
Step1(t) ==
    /\ memory[t].next = "step_1"
    /\ memory' = [memory EXCEPT ![t] =
          [@ EXCEPT !.values = step_1(@), !.next = "human_feedback",
                    !.events = Append(@, "step_1")]]
    /\ UNCHANGED notInterrupt

\* Node human_feedback: interrupt(...) suspends the run when no resume value
\* is there, and returns the resume value when there is one; then the edge
\* human_feedback -> step_3.
HumanFeedback(t) ==
    /\ memory[t].next = "human_feedback"
    /\ ~memory[t].interrupted
    /\ IF memory[t].resume = None THEN
            memory' = [memory EXCEPT ![t] =
                [@ EXCEPT !.interrupted = TRUE,
                          !.events = Append(@, "__interrupt__")]]
       ELSE
            memory' = [memory EXCEPT ![t] =
                [@ EXCEPT !.values = human_feedback(@, memory[t].resume),
                          !.next = "step_3",
                          !.events = Append(@, "human_feedback")]]
    /\ UNCHANGED notInterrupt

\* graph.stream(Command(resume=v), thread) that starts the graph over.
StreamResume_restart(t, v) ==
    /\ memory[t].interrupted
    /\ memory' = [memory EXCEPT ![t] =
          [@ EXCEPT !.interrupted = FALSE, !.resume = v, !.next = "step_1"]]
    /\ UNCHANGED notInterrupt

\* graph.stream(Command(resume=v), thread): the suspended node runs again
\* with v as the value of its interrupt call.
StreamResume(t, v) ==
    /\ memory[t].interrupted
    /\ memory' = [memory EXCEPT ![t] =
          [@ EXCEPT !.interrupted = FALSE, !.resume = v]]
    /\ UNCHANGED notInterrupt

\* Node step_3, then the edge step_3 -> END.
Step3(t) ==
    /\ memory[t].next = "step_3"
    /\ memory' = [memory EXCEPT ![t] =
          [@ EXCEPT !.values = step_3(@), !.next = END,
                    !.events = Append(@, "step_3")]]
    /\ UNCHANGED notInterrupt

\* graph = builder.compile(checkpointer=memory), nothing streamed yet.
InitInterrupt ==
    /\ NoApp
    /\ NoAgentRun
    /\ NoTrials
    /\ NoRuns
    /\ NoSaver
    /\ memory = [t \in ThreadIds |-> NoCheckpoint]

NextInterrupt ==
    \/ \E t \in ThreadIds, input \in Inputs : StreamInput(t, input)
    \/ \E t \in ThreadIds : Step1(t)
    \/ \E t \in ThreadIds : HumanFeedback(t)
    \/ \E t \in ThreadIds, v \in ResumeValues : StreamResume(t, v)
    \/ \E t \in ThreadIds : Step3(t)

SpecInterrupt == InitInterrupt /\ [][NextInterrupt]_vars

(* ---------------------------------------------------------------------- *)
(* triage_router invoked again and again, classifier stubbed               *)
(* ---------------------------------------------------------------------- *)

\* Largest number of invocations of triage_router explored.
MaxTrials == 3

\* triage_router taking the email from the module-level name email_input
\* instead of state["email_input"].
Outcome_reads_global(state, module_email, router) ==
    LET r == triage_router(module_email, router[module_email]) IN
    [goto |-> r.goto, update_messages |-> r.messages,
     decision |-> r.classification_decision, raised |-> r.raised,
     module_email |-> module_email]

\* triage_router(state) called in a notebook whose module-level email_input
\* is module_email and whose llm_router is the stub router: the Command it
\* returns or the raise, and the module-level email_input it leaves. The
\* function reads state["email_input"] and assigns locals only.
Outcome(state, module_email, router) ==
    LET r == triage_router(state.email_input, router[state.email_input]) IN
    [goto |-> r.goto, update_messages |-> r.messages,
     decision |-> r.classification_decision, raised |-> r.raised,
     module_email |-> module_email]

\* A cell assigns the module-level email_input (cells 33 and 34).
AssignEmail(email) ==
    /\ notebook_email # email
    /\ notebook_email' = email
    /\ UNCHANGED <<stub_router, trials>>
    /\ UNCHANGED notTriage

\* triage_router({"email_input": email}).
TriageCall(email) ==
    /\ Len(trials) < MaxTrials
    /\ LET state == [email_input |-> email]
           o == Outcome(state, notebook_email, stub_router)
       IN  /\ trials' = Append(trials,
                  [state |-> state, module_email |-> notebook_email,
                   outcome |-> o])
           /\ notebook_email' = o.module_email
    /\ UNCHANGED stub_router
    /\ UNCHANGED notTriage

InitTriage ==
    /\ NoApp
    /\ NoAgentRun
    /\ NoInterruptGraph
    /\ NoRuns
    /\ NoSaver
    /\ stub_router \in [Emails -> ChatLabels]
    /\ notebook_email \in Emails
    /\ trials = <<>>

NextTriage ==
    \/ \E email \in Emails : AssignEmail(email)
    \/ \E email \in Emails : TriageCall(email)

SpecTriage == InitTriage /\ [][NextTriage]_vars

(* ---------------------------------------------------------------------- *)
(* Two runs of the combined workflow, interleaved node by node             *)
(* ---------------------------------------------------------------------- *)

RunIds == {1, 2}

\* The model turns used in concurrent runs: every turn of at most one call,
\* and the turn that writes an email and signals Done.
RunBatches ==
    {b \in Batches :
        \/ Len(b) <= 1
        \/ /\ Len(b) = 2
           /\ b[1] = [name |-> "write_email", args |-> "valid"]
           /\ b[2] = [name |-> "Done", args |-> "valid"]}

\* overall_workflow.invoke({"email_input": email}) before its first node.
NewRun(email) ==
    [pc |-> "triage_router", email_input |-> email,
     classification_decision |-> Unset, messages |-> <<>>, error |-> NoError,
     label |-> None, answers |-> <<>>]

\* The response agent run alone from the conversation ms on the model
\* answers bs: where it stands once the answers are used up.
RECURSIVE AgentAlone(_, _)
AgentAlone(ms, bs) ==
    IF bs = <<>> THEN [pc |-> "llm_call", messages |-> ms, error |-> NoError]
    ELSE
        LET ms1 == Append(ms, AIMessage(WithIds(Head(bs), ms)))
            route == should_continue(ms1)
        IN  IF route \notin DOMAIN path_map THEN
                [pc |-> Aborted, messages |-> ms1,
                 error |-> [type |-> "KeyError", arg |-> route,
                            call_id |-> NoCallId]]
            ELSE IF path_map[route] = END THEN
                [pc |-> END, messages |-> ms1, error |-> NoError]
            ELSE
                LET r == tool_handler(ms1) IN
                IF r.raised # NoError THEN
                    [pc |-> Aborted, messages |-> ms1, error |-> r.raised]
                ELSE AgentAlone(ms1 \o r.messages, Tail(bs))

\* The combined workflow run alone on an email, with the classifier answer
\* label and the model answers bs.
RunAlone(email, label, bs) ==
    LET t == triage_router(email, label) IN
    IF t.raised # NoError THEN
        [pc |-> Aborted, email_input |-> email,
         classification_decision |-> Unset, messages |-> <<>>,
         error |-> t.raised]
    ELSE IF EntryOf(t.goto) = END THEN
        [pc |-> END, email_input |-> email,
         classification_decision |-> t.classification_decision,
         messages |-> t.messages, error |-> NoError]
    ELSE
        LET a == AgentAlone(t.messages, bs) IN
        [pc |-> a.pc, email_input |-> email,
         classification_decision |-> t.classification_decision,
         messages |-> a.messages, error |-> a.error]

\* Node triage_router of run r.
RunTriage(r) ==
    /\ runs[r].pc = "triage_router"
    /\ \E classification \in ChatLabels :
        LET t == triage_router(runs[r].email_input, classification) IN
        runs' = [runs EXCEPT ![r] =
            [@ EXCEPT !.pc = EntryOf(t.goto),
                      !.messages = @ \o t.messages,
                      !.classification_decision =
                          IF t.raised = NoError THEN t.classification_decision
                          ELSE @,
                      !.error = t.raised,
                      !.label = classification]]
    /\ UNCHANGED notRuns

\* Node llm_call of run r.
RunLlmCall(r) ==
    /\ runs[r].pc = "llm_call"
    /\ Len(runs[r].answers) < MaxTurns
    /\ \E batch \in RunBatches :
        runs' = [runs EXCEPT ![r] =
            [@ EXCEPT !.messages =
                          Append(@, AIMessage(WithIds(batch, runs[r].messages))),
                      !.pc = "should_continue",
                      !.answers = Append(@, batch)]]
    /\ UNCHANGED notRuns

\* Conditional edge after llm_call of run r.
RunShouldContinue(r) ==
    /\ runs[r].pc = "should_continue"
    /\ LET route == should_continue(runs[r].messages) IN
        runs' = [runs EXCEPT ![r] =
            IF route \in DOMAIN path_map THEN [@ EXCEPT !.pc = path_map[route]]
            ELSE [@ EXCEPT !.pc = Aborted,
                           !.error = [type |-> "KeyError", arg |-> route,
                                      call_id |-> NoCallId]]]
    /\ UNCHANGED notRuns

\* Node tool_handler whose list of tool messages is a module-level list that
\* the runs share: the update also carries the results of the other run.
RunToolHandler_shared_result(r) ==
    /\ runs[r].pc = "tool_handler"
    /\ LET t == tool_handler(runs[r].messages)
           others == {o \in RunIds \ {r} :
                        runs[o].messages # <<>>
                        /\ runs[o].messages[Len(runs[o].messages)].role = "tool"}
           leaked == IF others = {} THEN <<>>
                     ELSE LET o == CHOOSE o \in others : TRUE
                          IN  <<runs[o].messages[Len(runs[o].messages)]>>
       IN  runs' = [runs EXCEPT ![r] =
            [@ EXCEPT !.messages = @ \o leaked \o t.messages,
                      !.error = t.raised,
                      !.pc = IF t.raised = NoError THEN "llm_call" ELSE Aborted]]
    /\ UNCHANGED notRuns

\* Node tool_handler of run r, followed by the edge tool_handler -> llm_call.
RunToolHandler(r) ==
    /\ runs[r].pc = "tool_handler"
    /\ LET t == tool_handler(runs[r].messages) IN
        runs' = [runs EXCEPT ![r] =
            [@ EXCEPT !.messages = @ \o t.messages,
                      !.error = t.raised,
                      !.pc = IF t.raised = NoError THEN "llm_call" ELSE Aborted]]
    /\ UNCHANGED notRuns

InitRuns ==
    /\ NoApp
    /\ NoAgentRun
    /\ NoInterruptGraph
    /\ NoTrials
    /\ NoSaver
    /\ \E emails \in [RunIds -> Emails] :
          runs = [r \in RunIds |-> NewRun(emails[r])]

NextRuns ==
    \/ \E r \in RunIds : RunTriage(r)
    \/ \E r \in RunIds : RunLlmCall(r)
    \/ \E r \in RunIds : RunShouldContinue(r)
    \/ \E r \in RunIds : RunToolHandler(r)

SpecRuns == InitRuns /\ [][NextRuns]_vars

(* ---------------------------------------------------------------------- *)
(* create_react_agent(..., checkpointer=InMemorySaver()), invoked by thread *)
(* ---------------------------------------------------------------------- *)

\* Largest number of agent.invoke calls explored.
MaxInvokes == 3

\* Contents of the user messages handed to agent.invoke.
UserTexts == {<<"good practices?">>, <<"write the email">>}

\* What the model of the pre-built agent may answer on the conversation ms:
\* its final answer, or, right after a user message, one write_email call.
ReactAnswers(ms) ==
    {AIMessage(<<>>)} \cup
        IF ms[Len(ms)].role = "user"
        THEN {AIMessage(WithIds(<<[name |-> "write_email", args |-> "valid"]>>, ms))}
        ELSE {}

\* The tool messages the tools node of the pre-built agent returns for the
\* calls of the assistant message m.
ReactToolResults(m) ==
    [k \in 1..Len(m.tool_calls) |->
        ToolMessage(observation(m.tool_calls[k].name, m.tool_calls[k].args),
                    m.tool_calls[k].id)]

\* state = agent.get_state(config): the messages of the latest snapshot.
get_state(t) == saver[t]

\* An agent.invoke has been called and has not returned yet.
Running == invokes # <<>> /\ invokes[Len(invokes)].pc # END

\* agent.invoke with a checkpointer that keeps one snapshot for all threads.
AgentInvoke_unkeyed(t, text) ==
    /\ Len(invokes) < MaxInvokes
    /\ ~Running
    /\ saver' = [u \in DOMAIN saver |-> Append(saver[t], UserMessage(text))]
    /\ invokes' = Append(invokes,
          [thread |-> t, input |-> UserMessage(text), result |-> <<>>,
           pc |-> "agent"])
    /\ UNCHANGED notSaver

\* agent.invoke({"messages": [user message]}, config) with
\* config["configurable"]["thread_id"] = t, up to its first node: the run
\* starts from the snapshot of thread t, and the input is checkpointed on
\* that thread. The cells call invoke one after the other.
AgentInvoke(t, text) ==
    /\ Len(invokes) < MaxInvokes
    /\ ~Running
    /\ saver' = [saver EXCEPT ![t] = Append(@, UserMessage(text))]
    /\ invokes' = Append(invokes,
          [thread |-> t, input |-> UserMessage(text), result |-> <<>>,
           pc |-> "agent"])
    /\ UNCHANGED notSaver

\* The model node of the running invoke: the answer is appended and
\* checkpointed; an answer without tool calls ends the run, whose final
\* state is what invoke returns.
AgentNode ==
    /\ Running
    /\ invokes[Len(invokes)].pc = "agent"
    /\ LET t == invokes[Len(invokes)].thread IN
        \E answer \in ReactAnswers(saver[t]) :
            /\ saver' = [saver EXCEPT ![t] = Append(@, answer)]
            /\ invokes' = [invokes EXCEPT ![Len(invokes)] =
                  IF answer.tool_calls = <<>>
                  THEN [@ EXCEPT !.pc = END, !.result = Append(saver[t], answer)]
                  ELSE [@ EXCEPT !.pc = "tools"]]
    /\ UNCHANGED notSaver

\* The tools node of the running invoke: one result per call is appended and
\* checkpointed, then the model is asked again.
ToolsNode ==
    /\ Running
    /\ invokes[Len(invokes)].pc = "tools"
    /\ LET t == invokes[Len(invokes)].thread IN
        /\ saver' = [saver EXCEPT ![t] =
                        @ \o ReactToolResults(saver[t][Len(saver[t])])]
        /\ invokes' = [invokes EXCEPT ![Len(invokes)] = [@ EXCEPT !.pc = "agent"]]
    /\ UNCHANGED notSaver

InitSaver ==
    /\ NoApp
    /\ NoAgentRun
    /\ NoInterruptGraph
    /\ NoTrials
    /\ NoRuns
    /\ saver = [t \in ThreadIds |-> <<>>]
    /\ invokes = <<>>

NextSaver ==
    \/ \E t \in ThreadIds, text \in UserTexts : AgentInvoke(t, text)
    \/ AgentNode
    \/ ToolsNode

SpecSaver == InitSaver /\ [][NextSaver]_vars

(* ---------------------------------------------------------------------- *)
(* Conditional-routing workflow of langgraph_101.ipynb                     *)
(* ---------------------------------------------------------------------- *)

\* The requests handed to app.invoke as the first user message.
AppRequests == {"confirm attendance", "tomorrow's meeting"}

\* call_llm: the update it may return, one per answer of the model.
call_llm(ms) == {<<AIMessage(WithIds(batch, ms))>> : batch \in Batches}

\* The route should_continue of this workflow picks for the conversation ms.
should_continue_101(ms) ==
    LET last_message == ms[Len(ms)] IN
    IF last_message.tool_calls # <<>> THEN "run_tool" ELSE END

\* The loop of run_tool over the calls still to run: every call is handed to
\* write_email, whatever its name; the tool raises on arguments its schema
\* rejects.
RECURSIVE run_tool_loop(_, _)
run_tool_loop(calls, result) ==
    IF calls = <<>> THEN
        [result |-> result, raised |-> NoError, invoked |-> <<>>]
    ELSE LET tool_call == Head(calls) IN
        IF tool_call.args = "invalid" THEN
            [result |-> result,
             raised |-> [type |-> "ValidationError", arg |-> "write_email",
                         call_id |-> NoCallId],
             invoked |-> <<tool_call.id>>]
        ELSE LET rest == run_tool_loop(Tail(calls),
                            Append(result,
                                ToolMessage(observation("write_email", tool_call.args),
                                            tool_call.id)))
             IN  [rest EXCEPT !.invoked = <<tool_call.id>> \o @]

\* run_tool on the conversation ms: the update it returns, or the raise.
run_tool(ms) ==
    LET r == run_tool_loop(ms[Len(ms)].tool_calls, <<>>) IN
    IF r.raised = NoError THEN
        [messages |-> r.result, raised |-> NoError, invoked |-> r.invoked]
    ELSE [messages |-> <<>>, raised |-> r.raised, invoked |-> r.invoked]

\* Node call_llm, entered from START.
CallLlm ==
    /\ app # <<>>
    /\ app.pc = "call_llm"
    /\ \E update \in call_llm(app.messages) :
        app' = [app EXCEPT !.messages = @ \o update,
                           !.pc = "should_continue",
                           !.steps = Append(@, "call_llm")]
    /\ UNCHANGED notApp

\* Conditional edge after call_llm, path map {"run_tool": "run_tool", END: END}.
RouteAfterLlm ==
    /\ app # <<>>
    /\ app.pc = "should_continue"
    /\ app' = [app EXCEPT !.pc = should_continue_101(app.messages),
                          !.steps = Append(@, "should_continue")]
    /\ UNCHANGED notApp

\* Node run_tool with an edge back to call_llm.
RunTool_loops ==
    /\ app # <<>>
    /\ app.pc = "run_tool"
    /\ LET r == run_tool(app.messages) IN
        app' = [app EXCEPT !.messages = @ \o r.messages,
                           !.error = r.raised,
                           !.invoked = @ \o r.invoked,
                           !.pc = IF r.raised = NoError THEN "call_llm"
                                  ELSE Aborted,
                           !.steps = Append(@, "run_tool")]
    /\ UNCHANGED notApp

\* Node run_tool, followed by the edge run_tool -> END.
RunTool ==
    /\ app # <<>>
    /\ app.pc = "run_tool"
    /\ LET r == run_tool(app.messages) IN
        app' = [app EXCEPT !.messages = @ \o r.messages,
                           !.error = r.raised,
                           !.invoked = @ \o r.invoked,
                           !.pc = IF r.raised = NoError THEN END ELSE Aborted,
                           !.steps = Append(@, "run_tool")]
    /\ UNCHANGED notApp

\* app.invoke({"messages": [{"role": "user", "content": ...}]})
InitApp ==
    /\ NoAgentRun
    /\ NoInterruptGraph
    /\ NoTrials
    /\ NoRuns
    /\ NoSaver
    /\ \E request \in AppRequests :
        app = [pc |-> "call_llm",
               messages |-> <<UserMessage(<<request>>)>>,
               error |-> NoError, invoked |-> <<>>, steps |-> <<>>]

NextApp ==
    \/ CallLlm
    \/ RouteAfterLlm
    \/ RunTool

SpecApp == InitApp /\ [][NextApp]_vars

(* ---------------------------------------------------------------------- *)
(* Vocabulary of the properties                                            *)
(* ---------------------------------------------------------------------- *)

HasTurn == \E i \in 1..Len(messages) : messages[i].role = "assistant"

\* Index of the most recent assistant message.
LastTurn ==
    CHOOSE i \in 1..Len(messages) :
        /\ messages[i].role = "assistant"
        /\ \A j \in (i + 1)..Len(messages) : messages[j].role # "assistant"

LastCalls == messages[LastTurn].tool_calls

NamesOf(calls) == {calls[k].name : k \in 1..Len(calls)}

IdsOf(calls) == {calls[k].id : k \in 1..Len(calls)}

\* Indices of the tool messages that directly follow the assistant message i.
ResultsAfter(i) ==
    {j \in (i + 1)..Len(messages) :
        \A h \in (i + 1)..j : messages[h].role = "tool"}

LastStep == steps[Len(steps)]

(* ---------------------------------------------------------------------- *)
(* Properties                                                              *)
(* ---------------------------------------------------------------------- *)

\* C1: a turn whose batch holds a call named "Done" at any position is the
\* last turn of the run: llm_call is never about to run again after it.
C1_DoneAnywhereEndsLoop ==
    (pc = "llm_call" /\ HasTurn) => "Done" \notin NamesOf(LastCalls)

\* C2: when the loop has ended on a turn that holds "Done" together with
\* other calls, every call id of that turn has a tool-result message.
C2_DoneBatchRecorded ==
    (pc = END /\ HasTurn /\ "Done" \in NamesOf(LastCalls) /\ Len(LastCalls) > 1)
        => \A k \in 1..Len(LastCalls) :
              \E j \in ResultsAfter(LastTurn) :
                  messages[j].tool_call_id = LastCalls[k].id

\* C3: the response loop completes normally only after a turn that holds a
\* call named "Done": at END the most recent model turn contains one.
C3_EndOnlyAfterDone ==
    (pc = END /\ classification_decision = "respond")
        => (HasTurn /\ "Done" \in NamesOf(LastCalls))

C3_Witness ==
    /\ pc = END
    /\ classification_decision = "respond"
    /\ Turns(messages) >= 2
    /\ "Done" \in NamesOf(LastCalls)

\* C4: with decision ignore or notify the run is over right after
\* triage_router, no llm_call or tool_handler has run, and messages is what
\* the caller supplied (nothing).
C4_IgnoreNotifyTerminal ==
    classification_decision \in {"ignore", "notify"}
        => /\ pc = END
           /\ steps = <<"triage_router">>
           /\ messages = <<>>

C4_Witness ==
    /\ classification_decision = "notify"
    /\ pc = END
    /\ steps = <<"triage_router">>

\* C5: a turn that holds a call to an unregistered tool, at any position,
\* never completes normally or continues; the run aborts with the dispatch
\* error naming the unknown tool.
C5_UnknownToolAborts ==
    (HasTurn /\ NamesOf(LastCalls) \ tools_by_name # {})
        => /\ pc \in {"should_continue", "tool_handler", Aborted}
           /\ pc = Aborted =>
                 /\ error.type = "KeyError"
                 /\ error.arg \in NamesOf(LastCalls) \ tools_by_name

\* C6: a model turn with zero tool calls ends in an error: it is never
\* routed to tool_handler, the model is not called again, and the run does
\* not reach END.
C6_NoToolCallIsError ==
    (HasTurn /\ LastCalls = <<>>)
        => /\ pc \in {"should_continue", Aborted}
           /\ pc = Aborted =>
                 /\ error # NoError
                 /\ LastStep = "should_continue"
                 /\ LastTurn = Len(messages)

C6_Witness ==
    /\ HasTurn
    /\ LastCalls = <<>>
    /\ pc = Aborted
    /\ Turns(messages) >= 2

\* C7: the tool results that follow an assistant message are none or one for
\* each of its call ids: every result carries an id of that message, no id
\* twice, none missing; and every tool message follows an assistant message.
C7_ResultsMatchCalls ==
    /\ \A j \in 1..Len(messages) :
          messages[j].role = "tool" =>
              \E i \in 1..(j - 1) :
                  /\ messages[i].role = "assistant"
                  /\ j \in ResultsAfter(i)
                  /\ messages[j].tool_call_id \in IdsOf(messages[i].tool_calls)
    /\ \A i \in 1..Len(messages) :
          (messages[i].role = "assistant" /\ ResultsAfter(i) # {}) =>
              /\ Cardinality(ResultsAfter(i)) = Len(messages[i].tool_calls)
              /\ {messages[j].tool_call_id : j \in ResultsAfter(i)}
                    = IdsOf(messages[i].tool_calls)
              /\ Cardinality(IdsOf(messages[i].tool_calls))
                    = Len(messages[i].tool_calls)

C7_Witness ==
    \E i \in 1..Len(messages) :
        /\ messages[i].role = "assistant"
        /\ Len(messages[i].tool_calls) >= 2
        /\ Cardinality(ResultsAfter(i)) >= 2

\* C8: with decision respond, triage_router has appended exactly one
\* user-role message, the instruction built from the formatted email, and
\* the step that runs next is llm_call.
C8_RespondSeedsLoop ==
    classification_decision = "respond"
        => /\ Len(messages) >= 1
           /\ messages[1] =
                 UserMessage(<<"Respond to the email: ">>
                     \o format_email_markdown(email_input.subject,
                            email_input.author, email_input.to,
                            email_input.email_thread))
           /\ \A i \in 2..Len(messages) : messages[i].role # "user"
           /\ Len(steps) = 1 => (pc = "llm_call" /\ Len(messages) = 1)
           /\ Len(steps) >= 2 => steps[2] = "llm_call"

C8_Witness ==
    /\ classification_decision = "respond"
    /\ Len(steps) >= 2
    /\ steps[1] = "triage_router"

\* C9: a label outside {respond, ignore, notify} is never stored or acted
\* on: after triage either the model's label is of the closed set and is the
\* decision, or it is not and the run has aborted in triage_router with the
\* error of the rejected answer, the decision unset, messages untouched and
\* no node of the response loop run.
C9_InvalidLabelSignalled ==
    Len(steps) >= 1
        => \/ /\ router_result \in Labels
              /\ classification_decision = router_result
              /\ error = NoError \/ Len(steps) > 1
           \/ /\ router_result \notin Labels
              /\ classification_decision = Unset
              /\ error # NoError
              /\ error.type = "ValidationError"
              /\ error.arg = "RouterSchema"
              /\ pc = Aborted
              /\ messages = <<>>
              /\ steps = <<"triage_router">>

C9_Witness ==
    /\ router_result = "spam"
    /\ error.type = "ValidationError"
    /\ error.arg = "RouterSchema"
    /\ pc = Aborted

\* C10: when a tool raises inside tool_handler the run has aborted in that
\* step, and the error names the failing tool and carries its call id.
C10_ToolErrorNamesCall ==
    (pc = Aborted /\ LastStep = "tool_handler"
            /\ error.type = "ValidationError")
        => \E k \in 1..Len(LastCalls) :
              /\ LastCalls[k].args = "invalid"
              /\ \A h \in 1..(k - 1) : LastCalls[h].args = "valid"
              /\ LastCalls[k].name = error.arg
              /\ LastCalls[k].id = error.call_id

\* C11: the tool calls of one turn are handed to their tools in the order
\* the model emitted them, and the k-th tool message after the assistant
\* message is the result of its k-th call.
C11_EmissionOrder ==
    /\ \A i \in 1..Len(messages) :
          messages[i].role = "assistant" =>
              \A j \in ResultsAfter(i) :
                  /\ j - i <= Len(messages[i].tool_calls)
                  /\ messages[j].tool_call_id = messages[i].tool_calls[j - i].id
                  /\ messages[j].content =
                        observation(messages[i].tool_calls[j - i].name,
                                    messages[i].tool_calls[j - i].args)
    /\ \A a, b \in 1..Len(invoked) : a < b => invoked[a] < invoked[b]
    /\ \A a \in 1..Len(invoked) :
          \E i \in 1..Len(messages) : invoked[a] \in IdsOf(messages[i].tool_calls)

C11_Witness ==
    /\ Len(invoked) >= 2
    /\ \E i \in 1..Len(messages) :
          /\ messages[i].role = "assistant"
          /\ Len(messages[i].tool_calls) >= 2
          /\ Cardinality(ResultsAfter(i)) >= 2
          /\ messages[i].tool_calls[1].name # messages[i].tool_calls[2].name

\* Number of times the event e is in the event list es.
Count(es, e) == Cardinality({k \in 1..Len(es) : es[k] = e})

\* C12: a resumed run of the interrupt graph that has ended has
\* user_feedback equal to the value given to Command(resume=...), and input
\* equal to the value the run was started with.
C12_ResumeValueReturned ==
    \A t \in DOMAIN memory :
        /\ memory[t].next \in {"step_3", END} =>
              /\ memory[t].resume \in ResumeValues
              /\ memory[t].values.user_feedback = memory[t].resume
        /\ memory[t].next # "none" =>
              memory[t].values.input = memory[t].initial_input

C12_Witness ==
    \E t \in DOMAIN memory :
        /\ memory[t].next = END
        /\ memory[t].values.user_feedback = "go to step 3!"
        /\ memory[t].values.input = "hello world"

\* C13: step_1 runs once per run and not again on resume; step_3 does not run
\* while no resume value has been supplied, the run staying at the suspended
\* human_feedback; a run that has ended went through step_1, the
\* interruption, human_feedback and step_3, in that order.
C13_ContinuesFromSuspension ==
    \A t \in DOMAIN memory :
        /\ Count(memory[t].events, "step_1") <= 1
        /\ memory[t].resume = None =>
              /\ Count(memory[t].events, "step_3") = 0
              /\ Count(memory[t].events, "human_feedback") = 0
              /\ memory[t].next \in {"none", "step_1", "human_feedback"}
        /\ memory[t].interrupted =>
              /\ memory[t].next = "human_feedback"
              /\ memory[t].events = <<"step_1", "__interrupt__">>
        /\ memory[t].next = END =>
              memory[t].events =
                  <<"step_1", "__interrupt__", "human_feedback", "step_3">>

C13_Witness ==
    \E t, u \in DOMAIN memory :
        /\ memory[t].next = END
        /\ memory[u].interrupted

\* A turn that neither ends the loop nor fails: at least one call, the first
\* one not "Done", every name registered and every argument accepted.
Continuing(calls) ==
    /\ calls # <<>>
    /\ calls[1].name # "Done"
    /\ \A k \in 1..Len(calls) :
          calls[k].name \in tools_by_name /\ calls[k].args = "valid"

\* Every model turn so far is a continuing one: its first call is not Done
\* and all its calls succeed.
NeverDone ==
    /\ classification_decision = "respond"
    /\ \A i \in 1..Len(messages) :
          messages[i].role = "assistant" => Continuing(messages[i].tool_calls)

\* C14 as written: as long as every turn so far is a continuing one the run
\* is in the loop, without error, however many turns it has made, each turn
\* having taken llm_call, should_continue and tool_handler.
C14_LoopUnbounded ==
    NeverDone
        => /\ pc \in {"llm_call", "should_continue", "tool_handler"}
           /\ error = NoError
           /\ pc = "llm_call" => Len(steps) = 1 + 3 * Turns(messages)

\* C14, amended: the loop has no bound of its own. As long as every turn so
\* far is a continuing one the run never reaches END; it is in the loop
\* without error, each turn having taken llm_call, should_continue and
\* tool_handler, until the recursion limit of the graph is used up, and
\* then it is aborted with GraphRecursionError; no run is aborted with that
\* error earlier.
C14_LoopEndsAtLimitOnly ==
    /\ NeverDone =>
        /\ pc # END
        /\ \/ /\ pc \in {"llm_call", "should_continue", "tool_handler"}
              /\ error = NoError
              /\ AgentSteps(steps) <= recursion_limit
              /\ pc = "llm_call" => Len(steps) = 1 + 3 * Turns(messages)
           \/ /\ pc = Aborted
              /\ error.type = "GraphRecursionError"
              /\ LastStep = "out_of_steps"
    /\ error.type = "GraphRecursionError" =>
        /\ pc = Aborted
        /\ AgentSteps(steps) = recursion_limit

\* A run of continuing turns only, one of them holding a Done call after its
\* first, that used up the recursion limit and was aborted.
C14_Witness ==
    /\ NeverDone
    /\ pc = Aborted
    /\ error.type = "GraphRecursionError"
    /\ AgentSteps(steps) = recursion_limit
    /\ Count(steps, "tool_handler") >= 2
    /\ \E i \in 1..Len(messages) : "Done" \in NamesOf(messages[i].tool_calls)

\* C15: model turns and tool batches alternate: there are as many assistant
\* messages as llm_call steps; a tool_handler step comes right after an
\* llm_call step and its routing, is followed by llm_call when it succeeded,
\* and never leaves the run at END.
C15_StrictAlternation ==
    /\ Turns(messages) = Count(steps, "llm_call")
    /\ \A k \in 1..Len(steps) :
          steps[k] = "tool_handler" =>
              /\ k >= 3
              /\ steps[k - 1] = "should_continue"
              /\ steps[k - 2] = "llm_call"
              /\ k < Len(steps) => steps[k + 1] = "llm_call"
              /\ k = Len(steps) =>
                    /\ pc \in {"llm_call", Aborted}
                    /\ (pc = "llm_call") = (error = NoError)

C15_Witness ==
    /\ Count(steps, "tool_handler") >= 2
    /\ Count(steps, "llm_call") >= 3

\* The sequence a is a prefix of the sequence b.
IsPrefix(a, b) == Len(a) <= Len(b) /\ SubSeq(b, 1, Len(a)) = a

\* C16: every step of a run leaves the previous conversation as a prefix of
\* the new one.
C16_AppendOnly == [][IsPrefix(messages, messages')]_vars

C16_Witness ==
    /\ Len(messages) >= 5
    /\ \E i \in 1..Len(messages) : messages[i].role = "tool"

\* C17: classification_decision changes in the triage_router step only, from
\* unset to the label the classifier returned, and keeps that value in every
\* later state of the run.
C17_DecisionWrittenOnce ==
    /\ [](classification_decision # Unset =>
              /\ classification_decision = router_result
              /\ steps # <<>> /\ steps[1] = "triage_router")
    /\ [][classification_decision' # classification_decision =>
              (pc = "triage_router" /\ classification_decision = Unset)]_vars

C17_Witness ==
    /\ classification_decision = "respond"
    /\ router_result = "respond"
    /\ Count(steps, "tool_handler") >= 1
    /\ pc = END

\* C18: with a deterministic classifier, two invocations of triage_router on
\* the same email give the same decision, the same goto, the same update and
\* the same raise, whatever was triaged before or in between and whatever
\* the notebook's own email_input was at the time; an invocation leaves
\* that name as it found it.
C18_TriageRepeatable ==
    /\ \A i, j \in 1..Len(trials) :
          trials[i].state = trials[j].state =>
              /\ trials[i].outcome.decision = trials[j].outcome.decision
              /\ trials[i].outcome.goto = trials[j].outcome.goto
              /\ trials[i].outcome.update_messages
                    = trials[j].outcome.update_messages
              /\ trials[i].outcome.raised = trials[j].outcome.raised
    /\ \A i \in 1..Len(trials) :
          trials[i].outcome.module_email = trials[i].module_email

\* The same email triaged twice, once while the notebook's email_input was
\* that email and once while it was the other one, with another email
\* triaged in between and decided differently.
C18_Witness ==
    /\ Len(trials) >= 3
    /\ trials[1].state = trials[3].state
    /\ trials[2].state # trials[1].state
    /\ trials[1].module_email # trials[3].module_email
    /\ trials[1].outcome.decision = "respond"
    /\ trials[2].outcome.decision = "notify"
    /\ trials[3].outcome.decision = "respond"

\* The state of run r without the record of the answers it was given.
StateOf(r) ==
    [pc |-> runs[r].pc, email_input |-> runs[r].email_input,
     classification_decision |-> runs[r].classification_decision,
     messages |-> runs[r].messages, error |-> runs[r].error]

\* C19: of two interleaved runs, each one that has ended (or is about to ask
\* the model again) is in the state it reaches when run alone on its email
\* with the answers it was given: nothing of the other run is in it.
C19_RunsIsolated ==
    \A r \in DOMAIN runs :
        runs[r].pc \in {END, Aborted, "llm_call"} =>
            StateOf(r) = RunAlone(runs[r].email_input, runs[r].label,
                                  runs[r].answers)

C19_Witness ==
    /\ runs # <<>>
    /\ \A r \in RunIds : runs[r].pc = END /\ Len(runs[r].answers) >= 2
    /\ runs[1].messages # runs[2].messages
    /\ Len(runs[1].messages) # Len(runs[2].messages)

\* The invoke calls before the j-th one that were made on its thread.
EarlierOn(j) == {i \in 1..(j - 1) : invokes[i].thread = invokes[j].thread}

\* The user messages of a conversation, in order.
RECURSIVE UserPart(_)
UserPart(ms) ==
    IF ms = <<>> THEN <<>>
    ELSE IF Head(ms).role = "user" THEN <<Head(ms)>> \o UserPart(Tail(ms))
    ELSE UserPart(Tail(ms))

\* The inputs of the first j invoke calls that were made on thread t.
RECURSIVE InputsOn(_, _)
InputsOn(t, j) ==
    IF j = 0 THEN <<>>
    ELSE IF invokes[j].thread = t THEN Append(InputsOn(t, j - 1), invokes[j].input)
    ELSE InputsOn(t, j - 1)

\* What the j-th invoke started from: the result of the previous invoke on
\* its thread (nothing for the first one), followed by its input.
StartOf(j) ==
    IF EarlierOn(j) = {} THEN <<invokes[j].input>>
    ELSE LET i == CHOOSE i \in EarlierOn(j) : \A h \in EarlierOn(j) : h <= i
         IN  Append(invokes[i].result, invokes[j].input)

\* C20: an invoke on a thread id continues the conversation the previous
\* invoke on that thread ended with (the first one starts from nothing), its
\* result holds the user messages sent on that thread and no others, and
\* get_state gives the latest snapshot of the thread: the result of the
\* latest invoke on it once that has returned, and while it runs what it
\* started from and has added so far.
C20_ThreadKeyedState ==
    /\ \A j \in 1..Len(invokes) :
          invokes[j].pc = END =>
              /\ IsPrefix(StartOf(j), invokes[j].result)
              /\ UserPart(invokes[j].result) = InputsOn(invokes[j].thread, j)
    /\ \A t \in DOMAIN saver :
          /\ UserPart(get_state(t)) = InputsOn(t, Len(invokes))
          /\ \A j \in 1..Len(invokes) :
                (invokes[j].thread = t
                    /\ \A h \in (j + 1)..Len(invokes) : invokes[h].thread # t)
                    => /\ IsPrefix(StartOf(j), get_state(t))
                       /\ invokes[j].pc = END => get_state(t) = invokes[j].result

C20_Witness ==
    /\ Len(invokes) >= 3
    /\ invokes[3].pc = END
    /\ invokes[1].thread = invokes[3].thread
    /\ invokes[2].thread # invokes[1].thread
    /\ Len(invokes[3].result) > Len(invokes[1].result) + 2
    /\ invokes[1].input # invokes[2].input

\* Which of the four failures made run r abort, read off what the run was
\* given: the classifier's label, then the model's last turn.
FailureKind(r) ==
    IF runs[r].label \notin Labels THEN "classification"
    ELSE LET calls == runs[r].messages[Len(runs[r].messages)].tool_calls IN
         IF calls = <<>> THEN "protocol"
         ELSE IF \E k \in 1..Len(calls) :
                    /\ calls[k].name \notin tools_by_name
                    /\ \A h \in 1..(k - 1) : calls[h].args = "valid"
              THEN "dispatch"
              ELSE "tool"

\* C21: a run that fails is aborted with the error, and two runs that failed
\* in different ways (label outside the closed set, unknown tool, tool
\* failure, turn without tool call) hand their callers errors of different
\* types.
C21_FailuresDistinct ==
    \A r1, r2 \in DOMAIN runs :
        /\ runs[r1].error # NoError => runs[r1].pc = Aborted
        /\ (runs[r1].pc = Aborted /\ runs[r2].pc = Aborted
                /\ FailureKind(r1) # FailureKind(r2))
              => runs[r1].error.type # runs[r2].error.type

\* C22 as written: a respond run that completed normally either has a
\* write_email result before its last turn, or consists of the seed message
\* and one assistant message.
C22_EmailBeforeDone ==
    (pc = END /\ classification_decision = "respond")
        => \/ \E i \in 1..(LastTurn - 1), t \in 1..(LastTurn - 1) :
                /\ messages[i].role = "tool"
                /\ messages[t].role = "assistant"
                /\ \E k \in 1..Len(messages[t].tool_calls) :
                    /\ messages[t].tool_calls[k].name = "write_email"
                    /\ messages[t].tool_calls[k].id = messages[i].tool_call_id
           \/ Len(messages) = 2

\* C22, amended: a respond run that completed normally either has a result
\* of some registered tool (write_email or another) before its last turn,
\* or consists of the seed message and one assistant message whose first
\* call is Done.
C22_ResultBeforeDone ==
    (pc = END /\ classification_decision = "respond")
        => \/ \E i \in 1..(LastTurn - 1), t \in 1..(LastTurn - 1) :
                /\ messages[i].role = "tool"
                /\ messages[t].role = "assistant"
                /\ \E k \in 1..Len(messages[t].tool_calls) :
                    /\ messages[t].tool_calls[k].name \in tools_by_name
                    /\ messages[t].tool_calls[k].id = messages[i].tool_call_id
           \/ /\ Len(messages) = 2
              /\ messages[2].role = "assistant"
              /\ messages[2].tool_calls # <<>>
              /\ messages[2].tool_calls[1].name = "Done"

\* A respond run that completed after a calendar lookup and no email.
C22_Witness ==
    /\ pc = END
    /\ classification_decision = "respond"
    /\ Len(messages) = 4
    /\ messages[2].tool_calls[1].name = "check_calendar_availability"
    /\ messages[3].role = "tool"
    /\ messages[4].tool_calls[1].name = "Done"

\* What the steps taken so far and the way the run ended look like in the
\* combined workflow.
TriageFirstAndOnce ==
    /\ steps = <<>> => pc = "triage_router"
    /\ steps # <<>> =>
        /\ steps[1] = "triage_router"
        /\ Count(steps, "triage_router") = 1
    /\ pc = END =>
        \/ /\ steps = <<"triage_router">>
           /\ classification_decision \in {"ignore", "notify"}
        \/ /\ classification_decision = "respond"
           /\ LastStep = "should_continue"
           /\ should_continue(messages) = END

\* C23: triage_router runs first and exactly once; the run ends directly
\* after triage (ignore, notify) or when the response agent has routed to
\* END, and no node runs once the run has ended.
C23_TriageOnceThenAgent ==
    []TriageFirstAndOnce /\ [][pc # END /\ pc # Aborted]_vars

\* A respond run that went through tool_handler and ended in the agent.
C23_Witness ==
    /\ pc = END
    /\ classification_decision = "respond"
    /\ Count(steps, "tool_handler") >= 1
    /\ Count(steps, "triage_router") = 1

\* C24: no step of the workflow (triage_router, llm_call, should_continue,
\* tool_handler) changes email_input.
C24_EmailInputKept == [][email_input' = email_input]_vars

\* A run in which all four steps have acted and the email is one the caller
\* supplied.
C24_Witness ==
    /\ \A n \in {"triage_router", "llm_call", "should_continue",
                 "tool_handler"} : Count(steps, n) >= 1
    /\ email_input \in Emails

\* A turn made of one call of the given name.
OneCall(name) == <<AIMessage(<<[name |-> name, args |-> "valid", id |-> 1]>>)>>

\* C25: should_continue looks at the first call of the last message only:
\* every non-empty turn about to be routed gets the route of the turn made
\* of one call of the same name, so two batches with the same first name
\* get the same route; once routed the run is at END when that name is Done
\* and at tool_handler otherwise.
C25_FirstCallDecides ==
    /\ (pc = "should_continue" /\ LastCalls # <<>>) =>
        should_continue(messages) = should_continue(OneCall(LastCalls[1].name))
    /\ (steps # <<>> /\ LastStep = "should_continue" /\ LastCalls # <<>>) =>
        pc = IF LastCalls[1].name = "Done" THEN END ELSE "tool_handler"

\* A turn whose first call is write_email and whose second is Done has been
\* routed to tool_handler.
C25_Witness ==
    /\ steps # <<>>
    /\ LastStep = "should_continue"
    /\ Len(LastCalls) >= 2
    /\ LastCalls[1].name = "write_email"
    /\ LastCalls[2].name = "Done"
    /\ pc = "tool_handler"

\* Position of the call of the last turn at which tool_handler raised.
FailedAt(k) ==
    /\ \/ LastCalls[k].name \notin tools_by_name
       \/ LastCalls[k].args = "invalid"
    /\ \A h \in 1..(k - 1) :
        /\ LastCalls[h].name \in tools_by_name
        /\ LastCalls[h].args = "valid"

\* C26: when tool_handler raises at some call of the batch, the conversation
\* still ends with the assistant turn and holds no result for any call of
\* that turn, although the calls before the failing one were handed to
\* their tools.
C26_FailedBatchLeavesNoResult ==
    (pc = Aborted /\ LastStep = "tool_handler") =>
        /\ messages[Len(messages)].role = "assistant"
        /\ \A j \in 1..Len(messages) :
              messages[j].tool_call_id \notin IdsOf(LastCalls)
        /\ \E k \in 1..Len(LastCalls) :
              /\ FailedAt(k)
              /\ \A h \in 1..(k - 1) :
                    Count(invoked, LastCalls[h].id) = 1

\* tool_handler raised at the second call of a batch whose first call was
\* executed.
C26_Witness ==
    /\ pc = Aborted
    /\ LastStep = "tool_handler"
    /\ Len(LastCalls) >= 2
    /\ FailedAt(2)
    /\ Count(invoked, LastCalls[1].id) = 1

\* C27: when the response loop has completed normally, the conversation ends
\* with an assistant message whose first call is Done, no call of that turn
\* has a result, and there are as many tool results as calls in the earlier
\* assistant messages.
C27_FinalTurnUnanswered ==
    (pc = END /\ classification_decision = "respond") =>
        /\ messages[Len(messages)].role = "assistant"
        /\ messages[Len(messages)].tool_calls # <<>>
        /\ messages[Len(messages)].tool_calls[1].name = "Done"
        /\ \A j \in 1..Len(messages) :
              messages[j].tool_call_id
                  \notin IdsOf(messages[Len(messages)].tool_calls)
        /\ Cardinality({j \in 1..Len(messages) : messages[j].role = "tool"})
              = CallCount(messages) - Len(messages[Len(messages)].tool_calls)

\* A loop that completed on a turn of two calls after an earlier turn of two
\* calls was executed.
C27_Witness ==
    /\ pc = END
    /\ classification_decision = "respond"
    /\ Len(messages[Len(messages)].tool_calls) = 2
    /\ Cardinality({j \in 1..Len(messages) : messages[j].role = "tool"}) >= 2

\* C28: whenever llm_call or tool_handler is about to run, the decision is
\* respond and the conversation starts with the user message triage_router
\* built from the email.
C28_AgentRunsOnRespondOnly ==
    pc \in {"llm_call", "tool_handler"} =>
        /\ classification_decision = "respond"
        /\ messages # <<>>
        /\ messages[1] = triage_result(email_input, "respond").messages[1]
        /\ messages[1].role = "user"

\* tool_handler is about to run in the second turn of a respond run.
C28_Witness ==
    /\ pc = "tool_handler"
    /\ Count(steps, "tool_handler") >= 1
    /\ classification_decision = "respond"

\* Number of messages of the conversation with the given role.
RoleCount(role) ==
    Cardinality({i \in 1..Len(messages) : messages[i].role = role})

\* C30: the conversation kept in the state never holds a system message: the
\* system prompt heads only the list llm_call sends to the model, and the
\* state holds the one user message of triage, one assistant message per
\* llm_call, and tool messages only once tool_handler has run.
C30_NoSystemMessageStored ==
    /\ \A i \in 1..Len(messages) :
          messages[i].role \in {"user", "assistant", "tool"}
    /\ RoleCount("user")
          = IF classification_decision = "respond" THEN 1 ELSE 0
    /\ RoleCount("assistant") = Count(steps, "llm_call")
    /\ RoleCount("tool") > 0 => Count(steps, "tool_handler") > 0
    /\ pc = "llm_call" =>
          /\ llm_input(messages)[1].role = "system"
          /\ Tail(llm_input(messages)) = messages

\* Two model calls have been made, each on a prompt headed by the system
\* message, and the state holds messages of the three other roles.
C30_Witness ==
    /\ Count(steps, "llm_call") >= 2
    /\ RoleCount("user") = 1
    /\ RoleCount("assistant") >= 2
    /\ RoleCount("tool") >= 1
    /\ RoleCount("system") = 0

\* C29: the conditional-routing workflow of langgraph_101 is single-pass: the
\* model is called once; a run that ended on a message without tool calls
\* ran no tool, and otherwise run_tool appended one result per call, in
\* order, and the run ended with no second model call. A run aborts only
\* in run_tool, with nothing appended.
C29_SinglePass ==
    app # <<>> =>
        /\ app.steps \in {<<>>, <<"call_llm">>,
                          <<"call_llm", "should_continue">>,
                          <<"call_llm", "should_continue", "run_tool">>}
        /\ Turns(app.messages) = Count(app.steps, "call_llm")
        /\ app.pc = END =>
            LET calls == app.messages[2].tool_calls IN
            /\ Turns(app.messages) = 1
            /\ IF calls = <<>> THEN
                  /\ Len(app.messages) = 2
                  /\ app.invoked = <<>>
                  /\ app.steps = <<"call_llm", "should_continue">>
               ELSE
                  /\ app.steps = <<"call_llm", "should_continue", "run_tool">>
                  /\ Len(app.messages) = 2 + Len(calls)
                  /\ \A k \in 1..Len(calls) :
                        /\ app.messages[2 + k].role = "tool"
                        /\ app.messages[2 + k].tool_call_id = calls[k].id
        /\ app.pc = Aborted =>
            /\ app.steps = <<"call_llm", "should_continue", "run_tool">>
            /\ Len(app.messages) = 2

\* A run that ended after run_tool answered a message of two calls.
C29_Witness ==
    /\ app # <<>>
    /\ app.pc = END
    /\ Len(app.messages[2].tool_calls) = 2
    /\ Len(app.messages) = 4
    /\ app.messages[4].role = "tool"

====
